---- MODULE Spec2Model ----
(***************************************************************************)
(* A model of the alerting scheduler core of bosun                         *)
(* (cmd/bosun/sched/sched.go): the per-alert-key state store, the operator *)
(* action handler, the incident registry and its reconstruction from      *)
(* history, and the copy semantics of State (Go slices sharing a backing  *)
(* array).                                                                 *)
(***************************************************************************)
EXTENDS Integers, Sequences, FiniteSets, TLC

\* ------------------------------------------------------------------------
\* Bounds of the model
\* ------------------------------------------------------------------------

\* The clock runs from 1 to MaxTime.
MaxTime == 3
\* At most MaxActions records are kept in one state's Actions.
MaxActions == 2
\* Incident ids are assigned up to MaxId.
MaxId == 4
\* createIncident is called while maxIncidentId is below MaxLive.
MaxLive == 1
\* Conf.MinGroupSize is at most MaxMinGroup.
MaxMinGroup == 3
\* The clock of the grouping runs from 1 to MaxGroupTime.
MaxGroupTime == 2
\* The data-access store creates MaxStored incidents at most.
MaxStored == 2
\* The clock of the appended histories runs from 1 to MaxAppends.
MaxAppends == 7
\* The clock of the workers on the two locks runs from 1 to MaxLockTime.
MaxLockTime == 2
\* The lists of groups that are sorted have MaxGroups groups at most.
MaxGroups == 3

\* ------------------------------------------------------------------------
\* Program constants
\* ------------------------------------------------------------------------

StNone == 0
StNormal == 1
StWarning == 2
StCritical == 3
StUnknown == 4

ActionNone == 0
ActionAcknowledge == 1
ActionClose == 2
ActionForget == 3

\* The errors Schedule.Action returns, by their format strings.
NoErr == "nil"
ErrNoSuchKey == "no such alert key"
ErrAlreadyAcked == "alert already acknowledged"
ErrAckClosed == "cannot acknowledge closed alert"
ErrCloseActive == "cannot close active alert"
ErrForget == "can only forget unknowns"
ErrUnknownAction == "unknown action type"

\* ------------------------------------------------------------------------
\* Input sets
\* ------------------------------------------------------------------------

AlertKeys == {"a{h=x}", "b{h=y}"}
EventStatuses == {StNormal, StWarning, StUnknown}
ActionTypes == {ActionNone, ActionAcknowledge, ActionClose, ActionForget}
Users == {"u"}
Messages == {"m"}

\* expr.AlertKey is a string: Go compares alert keys bytewise.
AkLess(x, y) == x = "a{h=x}" /\ y = "b{h=y}"

\* ------------------------------------------------------------------------
\* Values
\* ------------------------------------------------------------------------

\* Event{}: the zero Event.
ZeroEvent == [Status |-> StNone, Time |-> 0, IncidentId |-> 0]
\* Action{}: the zero Action.
ZeroAction == [User |-> "", Message |-> "", Time |-> 0, Type |-> ActionNone]

\* A pointer is nil (<<>>) or set (<<v>>): Incident.End is a *time.Time.
NilPtr == <<>>
Ptr(v) == <<v>>

\* ------------------------------------------------------------------------
\* Go slices.  A slice is a header (array, len); the arrays live in the heap,
\* an array's length is the slice's capacity.  An array is named by the
\* State object whose append allocated it, the field and the capacity.
\* ------------------------------------------------------------------------

NilSlice == [arr |-> <<>>, len |-> 0]

Cap(h, sl) == IF sl.arr = <<>> THEN 0 ELSE Len(h[sl.arr])

\* The elements a slice shows: s[0:len(s)].
View(h, sl) == IF sl.len = 0 THEN <<>> ELSE SubSeq(h[sl.arr], 1, sl.len)

\* append(sl, x): in place when there is spare capacity, else into a new
\* array of twice the capacity, the elements copied.
SliceAppend(h, sl, x, zero, obj, field) ==
    LET cap == Cap(h, sl) IN
    IF sl.len < cap
    THEN [heap  |-> [h EXCEPT ![sl.arr] = [@ EXCEPT ![sl.len + 1] = x]],
          slice |-> [arr |-> sl.arr, len |-> sl.len + 1]]
    ELSE LET newcap == IF cap = 0 THEN 1 ELSE 2 * cap
             name   == <<obj, field, newcap>>
             cells  == [i \in 1..newcap |->
                          IF i <= sl.len THEN h[sl.arr][i]
                          ELSE IF i = sl.len + 1 THEN x ELSE zero]
         IN  [heap  |-> [n \in DOMAIN h \cup {name} |-> IF n = name THEN cells ELSE h[n]],
              slice |-> [arr |-> name, len |-> sl.len + 1]]

\* ------------------------------------------------------------------------
\* State
\* ------------------------------------------------------------------------

\* &State{}: a new State object obj, as the evaluation creates it.
NewState(obj) ==
    [obj |-> obj, History |-> NilSlice, Actions |-> NilSlice,
     NeedAck |-> FALSE, Open |-> FALSE, Forgotten |-> FALSE]

History(h, s) == View(h, s.History)
Actions(h, s) == View(h, s.Actions)

Last(h, s) ==
    IF s.History.len = 0 THEN ZeroEvent ELSE h[s.History.arr][s.History.len]

Status(h, s) == Last(h, s).Status

RECURSIVE AbnormalScan(_, _)
AbnormalScan(hist, i) ==
    IF i < 1 THEN NilPtr
    ELSE IF hist[i].Status > StNormal THEN Ptr(hist[i])
    ELSE AbnormalScan(hist, i - 1)

AbnormalEvent(h, s) == AbnormalScan(History(h, s), s.History.len)

AbnormalStatus(h, s) ==
    LET ev == AbnormalEvent(h, s) IN
    IF ev # NilPtr THEN ev[1].Status ELSE StNone

\* A mutant of IsActive: a Normal state counts as active.
IsActiveFromNormal(h, s) == Status(h, s) >= StNormal

IsActive(h, s) == Status(h, s) > StNormal

\* State.Copy: a new object obj; the slice headers are copied, the arrays
\* shared.
Copy(s, obj) ==
    [obj |-> obj, History |-> s.History, Actions |-> s.Actions,
     NeedAck |-> s.NeedAck, Open |-> s.Open, Forgotten |-> s.Forgotten]

\* A mutant of State.Action: the record takes the place of the last one.
StateActionInPlace(h, s, user, message, t, timestamp) ==
    LET x == [User |-> user, Message |-> message, Time |-> timestamp, Type |-> t]
        r == SliceAppend(h, s.Actions, x, ZeroAction, s.obj, "Actions")
    IN  IF s.Actions.len = 0
        THEN [heap |-> r.heap, state |-> [s EXCEPT !.Actions = r.slice]]
        ELSE [heap |-> [h EXCEPT ![s.Actions.arr][s.Actions.len] = x], state |-> s]

\* State.Action: appends the record to s.Actions.
StateAction(h, s, user, message, t, timestamp) ==
    LET r == SliceAppend(h, s.Actions,
                         [User |-> user, Message |-> message, Time |-> timestamp, Type |-> t],
                         ZeroAction, s.obj, "Actions")
    IN  [heap |-> r.heap, state |-> [s EXCEPT !.Actions = r.slice]]

\* State.Append: appends the event when the history is empty or its status
\* differs from the last; returns the status that was last.
StateAppend(h, s, event) ==
    LET last == Last(h, s) IN
    IF s.History.len = 0 \/ last.Status # event.Status
    THEN LET r == SliceAppend(h, s.History, event, ZeroEvent, s.obj, "History")
         IN  [heap |-> r.heap, state |-> [s EXCEPT !.History = r.slice], ret |-> last.Status]
    ELSE [heap |-> h, state |-> s, ret |-> last.Status]

\* ------------------------------------------------------------------------
\* The scheduler
\* ------------------------------------------------------------------------

VARIABLES
    status,         \* Schedule.status: alert key -> State
    removed,        \* the State objects Forget has deleted from status
    Notifications,  \* Schedule.Notifications: the alert keys tracked
    Incidents,      \* Schedule.Incidents: id -> Incident
    maxIncidentId,  \* Schedule.maxIncidentId
    heap,           \* the arrays behind the History and Actions slices
    snap,           \* the States a caller got from GetOpenStates
    now,            \* the clock: time.Now()
    incidentLock,   \* Schedule.incidentLock: the worker holding it, or ""
    pc,             \* where each worker stands in its call
    loc,            \* the local variables of each worker's call
    assigned,       \* the incident ids in the order they were assigned
    view,           \* the StateGroups a caller got from MarshalGroups
    db,             \* the key/value store: incident key -> JSON of the incident
    dbMaxIncidentId,\* the counter of the store under the key maxIncidentId
    reply,          \* what the last call of the data-access layer returned
    mutex           \* Schedule.mutex: the worker holding it, or ""

vars == <<status, removed, Notifications, Incidents, maxIncidentId, heap, snap, now,
          incidentLock, pc, loc, assigned, view, db, dbMaxIncidentId, reply, mutex>>

\* The incident store of the data-access layer.
data == <<db, dbMaxIncidentId, reply>>

\* What the callers of the scheduler's queries hold, the data-access layer
\* and the scheduler mutex.
ext == <<view, db, dbMaxIncidentId, reply, mutex>>

\* The variables of the workers that run createIncident and
\* createHistoricIncidents statement by statement.
conc == <<incidentLock, pc, loc, assigned>>

\* The workers creating incidents, and the one reconstructing them.
Creators == {"c1", "c2"}
Workers == Creators \cup {"h"}

EmptyMap == [x \in {} |-> 0]

\* No call of MarshalGroups has returned.
NoView == [err |-> "no call", input |-> {}, NeedAck |-> <<>>, Acknowledged |-> <<>>]

\* No reply of the data-access layer is held.
NoReply == [op |-> "none"]

\* m[k] = v, the key added when new.
MapPut(m, k, v) == [x \in DOMAIN m \cup {k} |-> IF x = k THEN v ELSE m[x]]
\* delete(m, k)
MapDelete(m, k) == [x \in DOMAIN m \ {k} |-> m[x]]

\* The arrays the States of map m reference.
Arrays(m) == UNION {{m[k].History.arr, m[k].Actions.arr} : k \in DOMAIN m} \ {<<>>}

\* The garbage collector: the heap without the arrays that none of the
\* States of the maps ms references.
Collect(h, ms) ==
    LET keep == UNION {Arrays(m) : m \in ms}
    IN  [n \in DOMAIN h \cap keep |-> h[n]]

\* Schedule.Init (the maps made empty) and the clock at its first reading.
Init ==
    /\ status = EmptyMap
    /\ removed = EmptyMap
    /\ Notifications = {}
    /\ Incidents = EmptyMap
    /\ maxIncidentId = 0
    /\ heap = EmptyMap
    /\ snap = EmptyMap
    /\ now = 1
    /\ incidentLock = ""
    /\ pc = [w \in Workers |-> "idle"]
    /\ loc = [w \in Workers |-> EmptyMap]
    /\ assigned = <<>>
    /\ view = NoView
    /\ db = EmptyMap
    /\ dbMaxIncidentId = 0
    /\ reply = NoReply
    /\ mutex = ""

\* Time passes.
Tick(max) ==
    /\ now < max
    /\ now' = now + 1
    /\ UNCHANGED <<status, removed, Notifications, Incidents, maxIncidentId, heap, snap>>
    /\ UNCHANGED <<conc, ext>>

\* A mutant of isUnknown: the last status is looked at, not the last abnormal one.
isUnknownLast(h, st) == Status(h, st) = StUnknown

\* isUnknown := st.AbnormalStatus() == StUnknown
isUnknown(h, st) == AbnormalStatus(h, st) = StUnknown

\* A mutant of ackState: NeedAck is left as it is.
ackStateKeeps(st) == st

\* ack(), on the state: st.NeedAck = false
ackState(st) == [st EXCEPT !.NeedAck = FALSE]

\* ack(), on the notifications: delete(s.Notifications, ak)
ackNotifications(ns, ak) == ns \ {ak}

\* A mutant of EndIncident: an incident that has an End is opened again.
EndIncidentReopens(incs, last, timestamp) ==
    IF last.IncidentId # 0 /\ last.IncidentId \in DOMAIN incs
    THEN [incs EXCEPT ![last.IncidentId].End = IF @ = NilPtr THEN Ptr(timestamp) ELSE NilPtr]
    ELSE incs

\* A mutant of EndIncident: every incident is ended.
EndIncidentAll(incs, last, timestamp) ==
    IF last.IncidentId # 0
    THEN [id \in DOMAIN incs |-> [incs[id] EXCEPT !.End = Ptr(timestamp)]]
    ELSE incs

\* The Close of Schedule.Action on the registry: if last.IncidentId != 0,
\* the incident of that id, if there is one, gets End = &timestamp.
EndIncident(incs, last, timestamp) ==
    IF last.IncidentId # 0 /\ last.IncidentId \in DOMAIN incs
    THEN [incs EXCEPT ![last.IncidentId].End = Ptr(timestamp)]
    ELSE incs

\* Schedule.Action, as a function of the scheduler's state: the error it
\* returns and the state it leaves.
DoAction(user, message, t, ak) ==
    LET unchanged == [status |-> status, removed |-> removed, Notifications |-> Notifications,
                      Incidents |-> Incidents, heap |-> heap]
    IN
    IF ak \notin DOMAIN status
    THEN [err |-> ErrNoSuchKey] @@ unchanged
    ELSE
    LET st        == status[ak]
        unknown   == isUnknown(heap, st)
        timestamp == now
        ackN      == ackNotifications(Notifications, ak)
        ackSt     == ackState(st)
        \* the statements after the switch: st.Action(user, message, t, timestamp)
        Record(s) == StateAction(heap, s, user, message, t, timestamp)
    IN
    CASE t = ActionAcknowledge ->
            IF ~st.NeedAck THEN [err |-> ErrAlreadyAcked] @@ unchanged
            ELSE IF ~st.Open THEN [err |-> ErrAckClosed] @@ unchanged
            ELSE LET r == Record(ackSt) IN
                 [err |-> NoErr, status |-> [status EXCEPT ![ak] = r.state],
                  removed |-> removed, Notifications |-> ackN,
                  Incidents |-> Incidents, heap |-> r.heap]
      [] t = ActionClose ->
            LET n1 == IF st.NeedAck THEN ackN ELSE Notifications
                s1 == IF st.NeedAck THEN ackSt ELSE st
            IN
            IF IsActive(heap, s1)
            THEN [err |-> ErrCloseActive, status |-> [status EXCEPT ![ak] = s1],
                  removed |-> removed, Notifications |-> n1,
                  Incidents |-> Incidents, heap |-> heap]
            ELSE LET s2   == [s1 EXCEPT !.Open = FALSE]
                     last == Last(heap, s2)
                     incs == EndIncident(Incidents, last, timestamp)
                     r    == Record(s2)
                 IN  [err |-> NoErr, status |-> [status EXCEPT ![ak] = r.state],
                      removed |-> removed, Notifications |-> n1,
                      Incidents |-> incs, heap |-> r.heap]
      [] t = ActionForget ->
            IF ~unknown THEN [err |-> ErrForget] @@ unchanged
            ELSE LET n1 == IF st.NeedAck THEN ackN ELSE Notifications
                     s1 == IF st.NeedAck THEN ackSt ELSE st
                     s2 == [s1 EXCEPT !.Open = FALSE, !.Forgotten = TRUE]
                     r  == Record(s2)
                 IN  [err |-> NoErr, status |-> MapDelete(status, ak),
                      removed |-> MapPut(removed, ak, r.state), Notifications |-> n1,
                      Incidents |-> Incidents, heap |-> r.heap]
      [] OTHER -> [err |-> ErrUnknownAction] @@ unchanged

\* A call of Schedule.Action.
Action(user, message, t, ak) ==
    LET r == DoAction(user, message, t, ak) IN
    /\ ak \in DOMAIN status => status[ak].Actions.len < MaxActions
    /\ status' = r.status
    /\ removed' = r.removed
    /\ Notifications' = r.Notifications
    /\ Incidents' = r.Incidents
    /\ heap' = Collect(r.heap, {r.status, r.removed, snap})
    /\ UNCHANGED <<maxIncidentId, snap, now>>
    /\ UNCHANGED <<conc, ext>>

\* One evaluation of an alert key: the State is created when the key is new,
\* the event is appended, and an abnormal transition opens the alert and,
\* when it notifies, asks for an acknowledgement.
RunHistory(ak, st, notify) ==
    /\ ak \notin DOMAIN removed
    /\ ak \in DOMAIN status => Last(heap, status[ak]).Time < now
    /\ LET s0 == IF ak \in DOMAIN status THEN status[ak] ELSE NewState(<<ak, "live">>)
           r  == StateAppend(heap, s0, [Status |-> st, Time |-> now, IncidentId |-> 0])
           abnormal == st > StNormal /\ r.ret # st
           s1 == IF abnormal
                 THEN [r.state EXCEPT !.Open = TRUE, !.NeedAck = @ \/ notify]
                 ELSE r.state
       IN  /\ abnormal \/ ~notify
           /\ status' = MapPut(status, ak, s1)
           /\ Notifications' = IF abnormal /\ notify THEN Notifications \cup {ak} ELSE Notifications
           /\ heap' = Collect(r.heap, {status', removed, snap})
    /\ UNCHANGED <<removed, Incidents, maxIncidentId, snap, now>>
    /\ UNCHANGED <<conc, ext>>

\* ------------------------------------------------------------------------
\* The incident registry
\* ------------------------------------------------------------------------

\* Schedule.createIncident, under incidentLock from its first statement to
\* its return.
createIncident(ak, start) ==
    /\ maxIncidentId < MaxId
    /\ LET id       == maxIncidentId + 1
           incident == [Id |-> id, Start |-> start, End |-> NilPtr, AlertKey |-> ak]
       IN  /\ maxIncidentId' = id
           /\ Incidents' = MapPut(Incidents, id, incident)
    /\ UNCHANGED <<status, removed, Notifications, heap, snap, now>>
    /\ UNCHANGED <<conc, ext>>

\* incidentList.Less
Less(a, b) == a.Start < b.Start \/ AkLess(a.AlertKey, b.AlertKey)

Swap(l, a, b) == [l EXCEPT ![a] = l[b], ![b] = l[a]]

\* sort.Sort on a list this short is an insertion sort:
\*   for i := a + 1; i < b; i++ {
\*       for j := i; j > a && data.Less(j, j-1); j-- { data.Swap(j, j-1) } }
RECURSIVE Sink(_, _)
Sink(l, j) ==
    IF j > 1 /\ Less(l[j], l[j - 1]) THEN Sink(Swap(l, j, j - 1), j - 1) ELSE l

RECURSIVE InsertionSort(_, _)
InsertionSort(l, i) ==
    IF i > Len(l) THEN l ELSE InsertionSort(Sink(l, i), i + 1)

Sort(l) == InsertionSort(l, 2)

\* The end of a new incident: the time of the first Close after the event.
RECURSIVE FindEnd(_, _, _)
FindEnd(acts, t, i) ==
    IF i > Len(acts) THEN NilPtr
    ELSE IF acts[i].Type = ActionClose /\ acts[i].Time > t THEN Ptr(acts[i].Time)
    ELSE FindEnd(acts, t, i + 1)

\* A mutant of Inside: an incident without an End does not continue.
InsideOnlyEnded(cur, ev) ==
    cur # NilPtr /\ cur[1].End # NilPtr /\ ev.Time < cur[1].End[1]

\* The event continues the open incident cur:
\* currentIncident.End == nil || ev.Time.Before(*currentIncident.End)
Inside(cur, ev) ==
    cur # NilPtr /\ (cur[1].End = NilPtr \/ ev.Time < cur[1].End[1])

\* Step 1 of createHistoricIncidents for one state: the loop over its
\* History from event i on, currentIncident being cur; the incidents made
\* are appended to acc, each with its entry of indexes.
RECURSIVE Sweep(_, _, _, _, _, _)
Sweep(hist, acts, ak, i, cur, acc) ==
    IF i > Len(hist) THEN acc
    ELSE LET ev == hist[i] IN
         IF Inside(cur, ev)
         THEN Sweep(hist, acts, ak, i + 1, cur, acc)
         ELSE IF ev.Status = StNormal
         THEN Sweep(hist, acts, ak, i + 1, NilPtr, acc)
         ELSE LET inc == [Id |-> 0, Start |-> ev.Time, End |-> FindEnd(acts, ev.Time, 1),
                          AlertKey |-> ak, index |-> i]
              IN  Sweep(hist, acts, ak, i + 1, Ptr(inc), Append(acc, inc))

\* Step 1 over the states in the order the map is ranged over.
RECURSIVE NewIncidents(_, _, _, _)
NewIncidents(h, sts, order, k) ==
    IF k > Len(order) THEN <<>>
    ELSE Sweep(History(h, sts[order[k]]), Actions(h, sts[order[k]]), order[k], 1, NilPtr, <<>>)
         \o NewIncidents(h, sts, order, k + 1)

\* A mutant of Stamp: the event at the time of End gets the id too.
RECURSIVE StampThroughEnd(_, _, _, _)
StampThroughEnd(h, sl, incident, idx) ==
    IF idx > sl.len THEN h
    ELSE LET ev == h[sl.arr][idx] IN
         IF incident.End = NilPtr \/ ev.Time <= incident.End[1]
         THEN StampThroughEnd([h EXCEPT ![sl.arr][idx].IncidentId = incident.Id],
                              sl, incident, idx + 1)
         ELSE h

\* The inner loop of step 3: the events of the incident's state from idx on
\* get the incident's id, up to the first one not before its End.
RECURSIVE Stamp(_, _, _, _)
Stamp(h, sl, incident, idx) ==
    IF idx > sl.len THEN h
    ELSE LET ev == h[sl.arr][idx] IN
         IF incident.End = NilPtr \/ ev.Time < incident.End[1]
         THEN Stamp([h EXCEPT ![sl.arr][idx].IncidentId = incident.Id], sl, incident, idx + 1)
         ELSE h

\* Step 3: ids assigned in the order of the list from element k on;
\* acc holds maxIncidentId, the heap and Incidents.
RECURSIVE Assign(_, _, _, _)
Assign(sts, list, k, acc) ==
    IF k > Len(list) THEN acc
    ELSE LET id       == acc.maxIncidentId + 1
             incident == [Id |-> id, Start |-> list[k].Start, End |-> list[k].End,
                          AlertKey |-> list[k].AlertKey]
         IN  Assign(sts, list, k + 1,
                    [maxIncidentId |-> id,
                     heap          |-> Stamp(acc.heap, sts[incident.AlertKey].History,
                                             incident, list[k].index),
                     Incidents     |-> MapPut(acc.Incidents, id, incident)])

\* The orders a range over the map m may take.
Orders(m) ==
    {o \in [1..Cardinality(DOMAIN m) -> DOMAIN m] : \A i, j \in DOMAIN o : i # j => o[i] # o[j]}

\* A mutant of ClearedIncidents: the incidents are kept.
KeptIncidents(incs) == incs

\* s.Incidents = make(map[uint64]*Incident)
ClearedIncidents(incs) == EmptyMap

\* createHistoricIncidents as a function of the states sts, the heap h,
\* the incidents incs and maxIncidentId max, the map ranged over in order.
Reconstruct(sts, h, incs, max, order) ==
    LET list == Sort(NewIncidents(h, sts, order, 1))
        r    == Assign(sts, list, 1,
                       [maxIncidentId |-> max, heap |-> h,
                        Incidents |-> ClearedIncidents(incs)])
    IN  r @@ [made |-> Len(list)]

\* Schedule.createHistoricIncidents, run without interruption.
createHistoricIncidents ==
    \E order \in Orders(status) :
        LET r == Reconstruct(status, heap, Incidents, maxIncidentId, order)
        IN  /\ maxIncidentId + r.made <= MaxId
            /\ maxIncidentId' = r.maxIncidentId
            /\ heap' = r.heap
            /\ Incidents' = r.Incidents
            /\ UNCHANGED <<status, removed, Notifications, snap, now>>
            /\ UNCHANGED <<conc, ext>>

\* ------------------------------------------------------------------------
\* Grouping: GroupStates, GroupSets, MarshalGroups
\* ------------------------------------------------------------------------

\* The alert keys the grouping is run on: two alerts, two tags.
GroupKeys == {"a{dc=1,h=x}", "a{dc=2,h=y}", "b{dc=1,h=y}"}

\* State.Alert of the State of alert key ak: ak.Name().
AlertName(ak) == IF ak \in {"b{dc=1,h=y}", "b{h=y}"} THEN "b" ELSE "a"

\* State.Group of the State of alert key ak, as its (key, value) pairs.
Tags(ak) ==
    CASE ak = "a{dc=1,h=x}" -> {<<"dc", "1">>, <<"h", "x">>}
      [] ak = "a{dc=2,h=y}" -> {<<"dc", "2">>, <<"h", "y">>}
      [] ak = "b{dc=1,h=y}" -> {<<"dc", "1">>, <<"h", "y">>}
      [] ak = "a{h=x}"      -> {<<"h", "x">>}
      [] ak = "b{h=y}"      -> {<<"h", "y">>}

\* fmt.Sprintf("{%s=%s}", pair.k, pair.v)
PairName(p) == "{" \o p[1] \o "=" \o p[2] \o "}"

\* Status.String
StatusString(st) ==
    CASE st = StNormal   -> "normal"
      [] st = StWarning  -> "warning"
      [] st = StCritical -> "critical"
      [] st = StUnknown  -> "unknown"
      [] OTHER           -> "none"

\* The strings MarshalGroups compares, in the order of Go's string <.
SortedStrings ==
    <<"", "a{dc=1,h=x}", "a{dc=2,h=y}", "a{h=x}", "b{dc=1,h=y}", "b{h=y}", "critical - a", "critical - a{dc=1,h=x}", "critical - a{dc=2,h=y}",
       "critical - a{h=x}", "critical - b", "critical - b{dc=1,h=y}",
       "critical - b{h=y}", "critical - {dc=1}", "critical - {dc=2}",
       "critical - {h=x}", "critical - {h=y}", "unknown - a", "unknown - a{dc=1,h=x}",
       "unknown - a{dc=2,h=y}", "unknown - a{h=x}", "unknown - b",
       "unknown - b{dc=1,h=y}", "unknown - b{h=y}", "unknown - {dc=1}",
       "unknown - {dc=2}", "unknown - {h=x}", "unknown - {h=y}", "warning - a",
       "warning - a{dc=1,h=x}", "warning - a{dc=2,h=y}", "warning - a{h=x}",
       "warning - b", "warning - b{dc=1,h=y}", "warning - b{h=y}", "warning - {dc=1}",
       "warning - {dc=2}", "warning - {h=x}", "warning - {h=y}" >>

\* a < b on strings
StrLess(a, b) ==
    LET rank(x) == CHOOSE i \in 1..Len(SortedStrings) : SortedStrings[i] = x
    IN  rank(a) < rank(b)

\* The sequences that list each element of set S once: the orders a range
\* over a map with the keys S can take.
Perms(S) ==
    {q \in [1..Cardinality(S) -> S] : \A i, j \in 1..Cardinality(S) : i # j => q[i] # q[j]}

\* The elements of sequence q that are in set S, in the order of q.
Restrict(q, S) == SelectSeq(q, LAMBDA x : x \in S)

Range(q) == {q[i] : i \in DOMAIN q}

\* States.GroupStates: the input states (keys) by the tuple
\* (NeedAck, IsActive, AbnormalStatus, silenced).
StateTuple(h, sts, silenced, ak) ==
    <<sts[ak].NeedAck, IsActive(h, sts[ak]), AbnormalStatus(h, sts[ak]), ak \in silenced>>

GroupStates(h, sts, keys, silenced) ==
    LET tuples == {StateTuple(h, sts, silenced, ak) : ak \in keys}
    IN  [t \in tuples |-> {ak \in keys : StateTuple(h, sts, silenced, ak) = t}]

\* A mutant of Counts: the states already seen are counted too.
CountsSeenToo(S, seen) ==
    LET pairs == UNION {Tags(ak) : ak \in S}
    IN  [p \in pairs |-> Cardinality({ak \in S : p \in Tags(ak)})]

\* The first loop of a round of GroupSets: counts[Pair{k, v}]++ over the
\* states of S not seen.
Counts(S, seen) ==
    LET left  == S \ seen
        pairs == UNION {Tags(ak) : ak \in left}
    IN  [p \in pairs |-> Cardinality({ak \in left : p \in Tags(ak)})]

\* The pairs the loop over counts can end on.  `if c > max` keeps the first
\* pair of the highest count, and the map is ranged over in any order: each
\* pair of the highest count can be the first.
MaxPairs(counts) ==
    {p \in DOMAIN counts : \A q \in DOMAIN counts : counts[q] <= counts[p]}

\* A mutant of Members: the states already seen are taken again.
MembersSeenToo(S, seen, sord, p) == Restrict(sord, {ak \in S : p \in Tags(ak)})

\* The group of a round: the states not seen that carry pair p, in the order
\* sord the states are ranged over.
Members(S, seen, sord, p) == Restrict(sord, {ak \in S \ seen : p \in Tags(ak)})

\* The loop `for { ... }` of GroupSets from a round on: the outcomes
\* (seen, groups) it can end with.
RECURSIVE Cover(_, _, _, _, _)
Cover(S, minGroup, sord, seen, groups) ==
    LET counts == Counts(S, seen)
        done   == {[seen |-> seen, groups |-> groups]}
    IN  IF DOMAIN counts = {} THEN done
        ELSE LET tops == MaxPairs(counts)
                 max  == counts[CHOOSE p \in tops : TRUE]
             IN  IF max < minGroup THEN done
                 ELSE UNION {LET group == Members(S, seen, sord, p) IN
                             Cover(S, minGroup, sord, seen \cup Range(group),
                                   IF Len(group) > 0
                                   THEN MapPut(groups, PairName(p), group)
                                   ELSE groups) : p \in tops}

\* groupedByAlert[a]: the states not seen of alert a.
GroupedByAlert(S, seen, sord, a) == Restrict(sord, {ak \in S \ seen : AlertName(ak) = a})

\* A mutant of ByAlert: every alert with a state not seen becomes a group.
ByAlertAny(S, minGroup, sord, seen, groups) ==
    LET big == {a \in {AlertName(ak) : ak \in S \ seen} : TRUE}
    IN  [n \in DOMAIN groups \cup big |->
            IF n \in big THEN GroupedByAlert(S, seen, sord, n) ELSE groups[n]]

\* The loop over groupedByAlert: an alert with minGroup states or more
\* becomes a group.
ByAlert(S, minGroup, sord, seen, groups) ==
    LET big == {a \in {AlertName(ak) : ak \in S \ seen} :
                   Len(GroupedByAlert(S, seen, sord, a)) >= minGroup}
    IN  [n \in DOMAIN groups \cup big |->
            IF n \in big THEN GroupedByAlert(S, seen, sord, n) ELSE groups[n]]

\* The last loop: each state neither seen nor grouped by alert is a group of
\* its own, named by its alert key.
Ungrouped(S, minGroup, sord, seen, groups) ==
    LET single == {ak \in S \ seen :
                      Len(GroupedByAlert(S, seen, sord, AlertName(ak))) < minGroup}
    IN  [n \in DOMAIN groups \cup single |-> IF n \in single THEN <<n>> ELSE groups[n]]

\* States.GroupSets on the states S, ranged over in order sord: the maps
\* from group name to alert keys it can return.
GroupSets(S, minGroup, sord) ==
    {Ungrouped(S, minGroup, sord, c.seen, ByAlert(S, minGroup, sord, c.seen, c.groups)) :
        c \in Cover(S, minGroup, sord, {}, EmptyMap)}

\* The child MarshalGroups makes for alert key ak of a bucket; no subject
\* has been rendered for the state.
Child(tuple, ak) ==
    [Active |-> tuple[2], Status |-> tuple[3], Silenced |-> tuple[4],
     AlertKey |-> ak, Alert |-> AlertName(ak), Subject |-> ""]

\* The StateGroup MarshalGroups makes for one entry of sets.
Group(tuple, name, members) ==
    LET children == [i \in DOMAIN members |-> Child(tuple, members[i])]
    IN  [Active |-> tuple[2], Status |-> tuple[3], Silenced |-> tuple[4], AlertKey |-> "",
         Subject |-> IF Len(children) = 1 /\ children[1].Subject # ""
                     THEN children[1].Subject
                     ELSE StatusString(tuple[3]) \o " - " \o name,
         Children |-> children]

\* A mutant of gsort: the AlertKey is not compared.
gsortNoAlertKey(a, b) ==
    IF a.Active /\ ~b.Active THEN TRUE
    ELSE IF ~a.Active /\ b.Active THEN FALSE
    ELSE IF a.Status # b.Status THEN a.Status > b.Status
    ELSE StrLess(a.Subject, b.Subject)

\* gsort: the order of the groups of a list.
gsort(a, b) ==
    IF a.Active /\ ~b.Active THEN TRUE
    ELSE IF ~a.Active /\ b.Active THEN FALSE
    ELSE IF a.Status # b.Status THEN a.Status > b.Status
    ELSE IF a.AlertKey # b.AlertKey THEN StrLess(a.AlertKey, b.AlertKey)
    ELSE StrLess(a.Subject, b.Subject)

\* slice.Sort(grp, gsort(grp)): sort.Sort, an insertion sort on a list this
\* short.
RECURSIVE GroupSink(_, _)
GroupSink(l, j) ==
    IF j > 1 /\ gsort(l[j], l[j - 1]) THEN GroupSink(Swap(l, j, j - 1), j - 1) ELSE l

RECURSIVE GroupInsertionSort(_, _)
GroupInsertionSort(l, i) ==
    IF i > Len(l) THEN l ELSE GroupInsertionSort(GroupSink(l, i), i + 1)

GroupSort(l) == GroupInsertionSort(l, 2)

\* The lists `grouped` the body of the loop over groups can build for a
\* bucket: GroupSets on its states, then sets ranged over in any order.
Grouped(tuple, S, minGroup) ==
    UNION {UNION {{[i \in DOMAIN nord |-> Group(tuple, nord[i], sets[nord[i]])] :
                      nord \in Perms(DOMAIN sets)} :
                  sets \in GroupSets(S, minGroup, sord)} :
           sord \in Perms(S)}

\* case StWarning, StCritical, StUnknown: the buckets MarshalGroups renders.
Rendered(st) == st \in {StWarning, StCritical, StUnknown}

\* The loop over groups, ranged over in order tord from element i on: the
\* lists (t.Groups.NeedAck, t.Groups.Acknowledged) it can end with.
RECURSIVE Gather(_, _, _, _, _)
Gather(buckets, minGroup, tord, i, acc) ==
    IF i > Len(tord) THEN {acc}
    ELSE LET t == tord[i] IN
         IF ~Rendered(t[3]) THEN Gather(buckets, minGroup, tord, i + 1, acc)
         ELSE UNION {Gather(buckets, minGroup, tord, i + 1,
                            IF t[1]
                            THEN [acc EXCEPT !.NeedAck = @ \o grouped]
                            ELSE [acc EXCEPT !.Acknowledged = @ \o grouped]) :
                     grouped \in Grouped(t, buckets[t], minGroup)}

\* The filter that does not parse.
BadFilter == {"bad filter"}

\* return nil, err
ErrGroups(e) == [err |-> e, input |-> {}, NeedAck |-> <<>>, Acknowledged |-> <<>>]
ErrBadFilter == "bad filter"
ErrUnknownAlert == "unknown alert"

\* Schedule.MarshalGroups as a function of the store: the values it can
\* return for a filter (the alert keys it matches), the configured alerts,
\* the silenced alert keys and Conf.MinGroupSize.  Beside the lists of
\* t.Groups, input keeps the keys of the local map status: the open states
\* the filter matched, which the call grouped.
MarshalGroupsResults(h, sts, filter, alerts, silenced, minGroup) ==
    LET open == {k \in DOMAIN sts : sts[k].Open} IN
    IF filter = BadFilter THEN {ErrGroups(ErrBadFilter)}
    ELSE IF \E k \in open : AlertName(k) \notin alerts THEN {ErrGroups(ErrUnknownAlert)}
    ELSE LET keys    == {k \in open : k \in filter}
             buckets == GroupStates(h, sts, keys, silenced)
             lists   == UNION {Gather(buckets, minGroup, tord, 1,
                                      [NeedAck |-> <<>>, Acknowledged |-> <<>>]) :
                               tord \in Perms(DOMAIN buckets)}
         IN  {[err          |-> NoErr,
               input        |-> keys,
               NeedAck      |-> GroupSort(g.NeedAck),
               Acknowledged |-> GroupSort(g.Acknowledged)] : g \in lists}

\* The filters MarshalGroups is called with, each as the alert keys it
\* matches; the alerts of the configurations; the silenced alert keys.
Filters == {GroupKeys, GroupKeys \ {"a{dc=2,h=y}"}, BadFilter}
ConfAlerts == {{"a", "b"}, {"a"}}
Silences == {{}, {"a{dc=1,h=x}"}}
MinGroups == 0..MaxMinGroup

\* GroupSets statement by statement, run by worker w on the states
\* loc[w].S ranged over in the order loc[w].sord.  One round of `for { ... }`
\* that does not break: a pair of the highest count, the states not seen
\* that carry it marked seen and made a group if there are any.
gsRound(w) ==
    /\ pc[w] = "GroupSets:257"
    /\ LET l      == loc[w]
           counts == Counts(l.S, l.seen)
       IN  /\ DOMAIN counts # {}
           /\ \E p \in MaxPairs(counts) :
                  /\ ~(counts[p] < l.minGroup)
                  /\ LET group == Members(l.S, l.seen, l.sord, p) IN
                     loc' = [loc EXCEPT ![w] =
                                [l EXCEPT !.seen = @ \cup Range(group),
                                          !.groups = IF Len(group) > 0
                                                     THEN MapPut(@, PairName(p), group)
                                                     ELSE @]]
    /\ UNCHANGED <<status, removed, Notifications, Incidents, maxIncidentId, heap, snap, now, incidentLock, pc, assigned, view, data, mutex>>

\* The round that breaks: len(counts) == 0, or max < minGroup.
gsBreak(w) ==
    /\ pc[w] = "GroupSets:257"
    /\ LET counts == Counts(loc[w].S, loc[w].seen) IN
       \/ DOMAIN counts = {}
       \/ \E p \in MaxPairs(counts) : counts[p] < loc[w].minGroup
    /\ pc' = [pc EXCEPT ![w] = "GroupSets:296"]
    /\ UNCHANGED <<status, removed, Notifications, Incidents, maxIncidentId, heap, snap, now, incidentLock, loc, assigned, view, data, mutex>>

\* The loops after the cover (alerts, ungrouped) and return groups.
gsReturn(w) ==
    /\ pc[w] = "GroupSets:296"
    /\ LET l == loc[w] IN
       loc' = [loc EXCEPT ![w] =
                  [l EXCEPT !.groups =
                      Ungrouped(l.S, l.minGroup, l.sord, l.seen,
                                ByAlert(l.S, l.minGroup, l.sord, l.seen, l.groups))]]
    /\ pc' = [pc EXCEPT ![w] = "GroupSets:return"]
    /\ UNCHANGED <<status, removed, Notifications, Incidents, maxIncidentId, heap, snap, now, incidentLock, assigned, view, data, mutex>>

\* The calls of GroupSets: the states, Conf.MinGroupSize (zero and negative
\* too) and the order the states are ranged over.
CoverMinGroups == (0 - 1)..MaxMinGroup
CoverCalls ==
    {[S |-> S, minGroup |-> mg, sord |-> sord, seen |-> {}, groups |-> EmptyMap] :
        S \in SUBSET GroupKeys, mg \in CoverMinGroups, sord \in Perms(GroupKeys)}

\* The groups a list handed to slice.Sort is made of: active or not, of two
\* statuses, with or without an alert key, of two subjects.
SortGroupsOf ==
    {[Active |-> act, Status |-> st, Silenced |-> FALSE, AlertKey |-> ak,
      Subject |-> sub, Children |-> <<>>] :
        act \in BOOLEAN, st \in {StWarning, StCritical}, ak \in {"", "a{h=x}"},
        sub \in {"warning - a", "warning - {h=x}"}}

\* The lists of at most MaxGroups groups.
GroupLists == UNION {[1..n -> SortGroupsOf] : n \in 0..MaxGroups}

\* t.Groups with list l in NeedAck, before the step "sort".
Unsorted(l) == [err |-> "unsorted", input |-> {}, NeedAck |-> l, Acknowledged |-> <<>>]

\* The step "sort" of MarshalGroups: slice.Sort with gsort on the lists.
SortGroups ==
    /\ view.err = "unsorted"
    /\ view' = [err |-> NoErr, input |-> {}, NeedAck |-> GroupSort(view.NeedAck),
                Acknowledged |-> GroupSort(view.Acknowledged)]
    /\ UNCHANGED <<status, removed, Notifications, Incidents, maxIncidentId, heap, snap, now>>
    /\ UNCHANGED <<conc, data, mutex>>

\* A call of Schedule.MarshalGroups: the caller gets one of the values it
\* can return.
MarshalGroups(filter, alerts, silenced, minGroup) ==
    /\ view = NoView
    /\ view' \in MarshalGroupsResults(heap, status, filter, alerts, silenced, minGroup)
    /\ UNCHANGED <<status, removed, Notifications, Incidents, maxIncidentId, heap, snap, now>>
    /\ UNCHANGED <<conc, data, mutex>>

\* The caller lets go of the StateGroups.
ViewDrop ==
    /\ view # NoView
    /\ view' = NoView
    /\ UNCHANGED <<status, removed, Notifications, Incidents, maxIncidentId, heap, snap, now>>
    /\ UNCHANGED <<conc, data, mutex>>

\* ------------------------------------------------------------------------
\* The data-access incident store (database/incident_data.go)
\* ------------------------------------------------------------------------

\* The keys and the times the calls of the data-access layer are given.
DataKeys == {"a{h=x}"}
DataIds == 1..(MaxStored + 1)
DataTimes == 1..(MaxTime + 1)

\* incidentKey: fmt.Sprint("incident:%d", id) prints its operands one after
\* the other; the verb is not interpreted.
incidentKey(id) == "incident:%d" \o ToString(id)

\* json.Marshal of an Incident: the fields as text, a nil End as null.
Marshal(i) ==
    [Id       |-> ToString(i.Id),
     Start    |-> ToString(i.Start),
     End      |-> IF i.End = NilPtr THEN "null" ELSE ToString(i.End[1]),
     AlertKey |-> i.AlertKey]

\* The number a decimal text stands for.
ParseInt(s) == CHOOSE n \in 0..(MaxTime + MaxStored + 2) : ToString(n) = s

\* json.Unmarshal(raw, incident)
Unmarshal(raw) ==
    [Id       |-> ParseInt(raw.Id),
     Start    |-> ParseInt(raw.Start),
     End      |-> IF raw.End = "null" THEN NilPtr ELSE Ptr(ParseInt(raw.End)),
     AlertKey |-> raw.AlertKey]

ErrNil == "redigo: nil returned"

\* dataAccess.GetIncident as a function of the store.
DataGet(store, id) ==
    IF incidentKey(id) \notin DOMAIN store
    THEN [err |-> ErrNil]
    ELSE [err |-> NoErr, incident |-> Unmarshal(store[incidentKey(id)])]

\* dataAccess.CreateIncident(ak, start): INCR maxIncidentId, then the
\* incident is built and saved.  Start is read from the clock.
CreateIncident(ak, start) ==
    /\ dbMaxIncidentId < MaxStored
    /\ LET id       == dbMaxIncidentId + 1
           incident == [Id |-> id, Start |-> now, End |-> NilPtr, AlertKey |-> ak]
       IN  /\ dbMaxIncidentId' = id
           /\ db' = MapPut(db, incidentKey(id), Marshal(incident))
           /\ reply' = [op |-> "CreateIncident", ak |-> ak, start |-> start,
                        err |-> NoErr, incident |-> incident]
    /\ UNCHANGED <<status, removed, Notifications, Incidents, maxIncidentId, heap, snap, now>>
    /\ UNCHANGED <<conc, view, mutex>>

\* dataAccess.GetIncident(id)
GetIncident(id) ==
    /\ reply' = [op |-> "GetIncident", id |-> id] @@ DataGet(db, id)
    /\ reply' # reply
    /\ UNCHANGED <<status, removed, Notifications, Incidents, maxIncidentId, heap, snap, now>>
    /\ UNCHANGED <<conc, view, db, dbMaxIncidentId, mutex>>

\* dataAccess.UpdateIncident(id, i): the caller ends the incident it got.
UpdateIncident(id, end) ==
    /\ DataGet(db, id).err = NoErr
    /\ LET i == [DataGet(db, id).incident EXCEPT !.End = Ptr(end)] IN
       /\ db' = MapPut(db, incidentKey(id), Marshal(i))
       /\ db' # db
    /\ reply' = NoReply
    /\ UNCHANGED <<status, removed, Notifications, Incidents, maxIncidentId, heap, snap, now>>
    /\ UNCHANGED <<conc, view, dbMaxIncidentId, mutex>>

\* ------------------------------------------------------------------------
\* Snapshots
\* ------------------------------------------------------------------------

\* States.Copy
StatesCopy(states) == [ak \in DOMAIN states |-> Copy(states[ak], <<ak, "copy">>)]

\* Schedule.GetOpenStates: the caller keeps what it returns in snap.
GetOpenStates ==
    /\ snap = EmptyMap
    /\ LET states == StatesCopy(status)
       IN  snap' = [k \in {k \in DOMAIN states : states[k].Open} |-> states[k]]
    /\ UNCHANGED <<status, removed, Notifications, Incidents, maxIncidentId, heap, now>>
    /\ UNCHANGED <<conc, ext>>

\* The caller of GetOpenStates appends an event to a State of its snapshot.
SnapAppend(ak, st) ==
    /\ ak \in DOMAIN snap
    /\ Last(heap, snap[ak]).Time < now
    /\ LET r == StateAppend(heap, snap[ak], [Status |-> st, Time |-> now, IncidentId |-> 0])
       IN  /\ snap' = [snap EXCEPT ![ak] = r.state]
           /\ heap' = Collect(r.heap, {status, removed, snap'})
    /\ UNCHANGED <<status, removed, Notifications, Incidents, maxIncidentId, now>>
    /\ UNCHANGED <<conc, ext>>

\* The caller drops its snapshot.
SnapDrop ==
    /\ snap # EmptyMap
    /\ snap' = EmptyMap
    /\ heap' = Collect(heap, {status, removed})
    /\ UNCHANGED <<status, removed, Notifications, Incidents, maxIncidentId, now>>
    /\ UNCHANGED <<conc, ext>>

\* ------------------------------------------------------------------------
\* createIncident and createHistoricIncidents statement by statement, each
\* run by a worker of its own.  s.maxIncidentId++ is a load and a store.
\* ------------------------------------------------------------------------

\* s.incidentLock.Lock()
cLock(w, ak) ==
    /\ pc[w] = "idle"
    /\ incidentLock = ""
    /\ Len(assigned) < MaxId
    /\ incidentLock' = w
    /\ pc' = [pc EXCEPT ![w] = "load"]
    /\ loc' = [loc EXCEPT ![w] = [ak |-> ak, start |-> now]]
    /\ UNCHANGED ext
    /\ UNCHANGED <<status, removed, Notifications, Incidents, maxIncidentId, heap, snap, now,
                   assigned>>

\* s.maxIncidentId++: the load
cLoad(w) ==
    /\ pc[w] = "load"
    /\ loc' = [loc EXCEPT ![w] = [ak |-> @.ak, start |-> @.start, tmp |-> maxIncidentId]]
    /\ pc' = [pc EXCEPT ![w] = "store"]
    /\ UNCHANGED ext
    /\ UNCHANGED <<status, removed, Notifications, Incidents, maxIncidentId, heap, snap, now,
                   incidentLock, assigned>>

\* s.maxIncidentId++: the store
cStore(w) ==
    /\ pc[w] = "store"
    /\ maxIncidentId' = loc[w].tmp + 1
    /\ pc' = [pc EXCEPT ![w] = "id"]
    /\ UNCHANGED ext
    /\ UNCHANGED <<status, removed, Notifications, Incidents, heap, snap, now,
                   incidentLock, loc, assigned>>

\* id := s.maxIncidentId; incident := &Incident{Id: id, Start: start, AlertKey: ak}
cId(w) ==
    /\ pc[w] = "id"
    /\ loc' = [loc EXCEPT ![w] = [ak |-> @.ak, start |-> @.start, id |-> maxIncidentId]]
    /\ assigned' = Append(assigned, maxIncidentId)
    /\ pc' = [pc EXCEPT ![w] = "put"]
    /\ UNCHANGED ext
    /\ UNCHANGED <<status, removed, Notifications, Incidents, maxIncidentId, heap, snap, now,
                   incidentLock>>

\* s.Incidents[id] = incident; return incident (the deferred Unlock runs)
cPut(w) ==
    /\ pc[w] = "put"
    /\ Incidents' = MapPut(Incidents, loc[w].id,
                           [Id |-> loc[w].id, Start |-> loc[w].start, End |-> NilPtr,
                            AlertKey |-> loc[w].ak])
    /\ incidentLock' = ""
    /\ pc' = [pc EXCEPT ![w] = "idle"]
    /\ loc' = [loc EXCEPT ![w] = EmptyMap]
    /\ UNCHANGED ext
    /\ UNCHANGED <<status, removed, Notifications, maxIncidentId, heap, snap, now, assigned>>

\* s.Incidents = make(map[uint64]*Incident), then steps 1 and 2: the list of
\* new incidents, sorted.  No lock is taken.
hBegin ==
    /\ pc["h"] = "idle"
    /\ \E order \in Orders(status) :
         LET list == Sort(NewIncidents(heap, status, order, 1)) IN
         /\ Len(assigned) + Len(list) <= MaxId
         /\ loc' = [loc EXCEPT !["h"] = [list |-> list, k |-> 1]]
    /\ Incidents' = ClearedIncidents(Incidents)
    /\ pc' = [pc EXCEPT !["h"] = "loop"]
    /\ UNCHANGED ext
    /\ UNCHANGED <<status, removed, Notifications, maxIncidentId, heap, snap, now,
                   incidentLock, assigned>>

\* for _, incident := range incidents: the next incident, or the return;
\* s.maxIncidentId++: the load
hLoad ==
    /\ pc["h"] = "loop"
    /\ IF loc["h"].k > Len(loc["h"].list)
       THEN /\ pc' = [pc EXCEPT !["h"] = "idle"]
            /\ loc' = [loc EXCEPT !["h"] = EmptyMap]
       ELSE /\ pc' = [pc EXCEPT !["h"] = "store"]
            /\ loc' = [loc EXCEPT !["h"] = [list |-> @.list, k |-> @.k, tmp |-> maxIncidentId]]
    /\ UNCHANGED ext
    /\ UNCHANGED <<status, removed, Notifications, Incidents, maxIncidentId, heap, snap, now,
                   incidentLock, assigned>>

\* s.maxIncidentId++: the store
hStore ==
    /\ pc["h"] = "store"
    /\ maxIncidentId' = loc["h"].tmp + 1
    /\ pc' = [pc EXCEPT !["h"] = "id"]
    /\ UNCHANGED ext
    /\ UNCHANGED <<status, removed, Notifications, Incidents, heap, snap, now,
                   incidentLock, loc, assigned>>

\* incident.Id = s.maxIncidentId, and the events of the incident marked
hId ==
    /\ pc["h"] = "id"
    /\ LET new      == loc["h"].list[loc["h"].k]
           incident == [Id |-> maxIncidentId, Start |-> new.Start, End |-> new.End,
                        AlertKey |-> new.AlertKey]
       IN  /\ heap' = Stamp(heap, status[incident.AlertKey].History, incident, new.index)
           /\ loc' = [loc EXCEPT !["h"] = [list |-> @.list, k |-> @.k, incident |-> incident]]
    /\ assigned' = Append(assigned, maxIncidentId)
    /\ pc' = [pc EXCEPT !["h"] = "put"]
    /\ UNCHANGED ext
    /\ UNCHANGED <<status, removed, Notifications, Incidents, maxIncidentId, snap, now,
                   incidentLock>>

\* s.Incidents[incident.Id] = incident
hPut ==
    /\ pc["h"] = "put"
    /\ Incidents' = MapPut(Incidents, loc["h"].incident.Id, loc["h"].incident)
    /\ loc' = [loc EXCEPT !["h"] = [list |-> @.list, k |-> @.k + 1]]
    /\ pc' = [pc EXCEPT !["h"] = "loop"]
    /\ UNCHANGED ext
    /\ UNCHANGED <<status, removed, Notifications, maxIncidentId, heap, snap, now,
                   incidentLock, assigned>>

\* ------------------------------------------------------------------------
\* The two locks: Schedule.mutex and Schedule.incidentLock
\* ------------------------------------------------------------------------

\* The fields of the scheduler the operations read and write under the locks.
store == <<status, removed, Notifications, Incidents, maxIncidentId, heap, snap, now>>

\* The positions at which a worker waits for the scheduler mutex, and for
\* incidentLock, with a call under way.
MutexRequests == {"GetIncidentEvents:964"}
IncidentRequests == {"Action:708"}

\* Schedule.Action reaches s.incidentLock.Lock(): a Close of a state that is
\* not active and whose last event carries an incident id.
ReachesIncidentLock(t, ak) ==
    /\ t = ActionClose
    /\ ak \in DOMAIN status
    /\ ~IsActive(heap, status[ak])
    /\ Last(heap, status[ak]).IncidentId # 0

\* Action: s.Lock("Action")
aLock(w, user, message, t, ak) ==
    /\ pc[w] = "idle"
    /\ mutex = ""
    /\ ak \in DOMAIN status => status[ak].Actions.len < MaxActions
    /\ mutex' = w
    /\ pc' = [pc EXCEPT ![w] = IF ReachesIncidentLock(t, ak) THEN "Action:708" ELSE "Action:return"]
    /\ loc' = [loc EXCEPT ![w] = [user |-> user, message |-> message, t |-> t, ak |-> ak]]
    /\ UNCHANGED <<store, incidentLock, assigned, view, data>>

\* Action: s.incidentLock.Lock()
aIncident(w) ==
    /\ pc[w] = "Action:708"
    /\ incidentLock = ""
    /\ incidentLock' = w
    /\ pc' = [pc EXCEPT ![w] = "Action:709"]
    /\ UNCHANGED <<store, mutex, loc, assigned, view, data>>

\* Action: the body of the call, s.incidentLock.Unlock() where it was
\* locked, and the deferred s.Unlock().
aReturn(w) ==
    /\ pc[w] \in {"Action:709", "Action:return"}
    /\ LET r == DoAction(loc[w].user, loc[w].message, loc[w].t, loc[w].ak) IN
       /\ status' = r.status
       /\ removed' = r.removed
       /\ Notifications' = r.Notifications
       /\ Incidents' = r.Incidents
       /\ heap' = Collect(r.heap, {r.status, r.removed, snap})
    /\ incidentLock' = IF pc[w] = "Action:709" THEN "" ELSE incidentLock
    /\ mutex' = ""
    /\ pc' = [pc EXCEPT ![w] = "idle"]
    /\ loc' = [loc EXCEPT ![w] = EmptyMap]
    /\ UNCHANGED <<maxIncidentId, snap, now, assigned, view, data>>

\* GetOpenStates: s.Lock("GetOpenStates"); MarshalGroups:
\* s.Lock("MarshallGroups").
qLock(w, method) ==
    /\ pc[w] = "idle"
    /\ mutex = ""
    /\ mutex' = w
    /\ pc' = [pc EXCEPT ![w] = method]
    /\ UNCHANGED <<store, incidentLock, loc, assigned, view, data>>

\* GetOpenStates and MarshalGroups: the body of the call and the deferred
\* s.Unlock(); the caller drops what it is returned.
qReturn(w) ==
    /\ pc[w] \in {"GetOpenStates:334", "MarshalGroups:379"}
    /\ mutex' = ""
    /\ pc' = [pc EXCEPT ![w] = "idle"]
    /\ UNCHANGED <<store, incidentLock, loc, assigned, view, data>>

\* GetIncidents, GetIncident: s.incidentLock.Lock()
iLock(w, method) ==
    /\ pc[w] = "idle"
    /\ incidentLock = ""
    /\ incidentLock' = w
    /\ pc' = [pc EXCEPT ![w] = method]
    /\ UNCHANGED <<store, mutex, loc, assigned, view, data>>

\* GetIncidents: the loop and the deferred s.incidentLock.Unlock();
\* GetIncident: the lookup and s.incidentLock.Unlock().  The caller drops
\* what it is returned.
iReturn(w) ==
    /\ pc[w] \in {"GetIncidents:933", "GetIncident:948"}
    /\ incidentLock' = ""
    /\ pc' = [pc EXCEPT ![w] = "idle"]
    /\ UNCHANGED <<store, mutex, loc, assigned, view, data>>

\* GetIncidentEvents: s.incidentLock.Lock()
eLock(w, id) ==
    /\ pc[w] = "idle"
    /\ incidentLock = ""
    /\ incidentLock' = w
    /\ pc' = [pc EXCEPT ![w] = "GetIncidentEvents:958"]
    /\ loc' = [loc EXCEPT ![w] = [id |-> id]]
    /\ UNCHANGED <<store, mutex, assigned, view, data>>

\* A mutant of eLookup: incidentLock is kept until the call returns.
eLookupDeferred(w) ==
    /\ pc[w] = "GetIncidentEvents:958"
    /\ incidentLock' = IF loc[w].id \in DOMAIN Incidents THEN incidentLock ELSE ""
    /\ pc' = [pc EXCEPT ![w] = IF loc[w].id \in DOMAIN Incidents
                               THEN "GetIncidentEvents:964" ELSE "idle"]
    /\ loc' = [loc EXCEPT ![w] = IF loc[w].id \in DOMAIN Incidents THEN @ ELSE EmptyMap]
    /\ UNCHANGED <<store, mutex, assigned, view, data>>

\* GetIncidentEvents: incident, ok := s.Incidents[id];
\* s.incidentLock.Unlock(); the return when !ok.
eLookup(w) ==
    /\ pc[w] = "GetIncidentEvents:958"
    /\ incidentLock' = ""
    /\ pc' = [pc EXCEPT ![w] = IF loc[w].id \in DOMAIN Incidents
                               THEN "GetIncidentEvents:964" ELSE "idle"]
    /\ loc' = [loc EXCEPT ![w] = IF loc[w].id \in DOMAIN Incidents THEN @ ELSE EmptyMap]
    /\ UNCHANGED <<store, mutex, assigned, view, data>>

\* GetIncidentEvents: s.GetStatus(incident.AlertKey) takes the scheduler
\* mutex to read s.status.
eGetStatus(w) ==
    /\ pc[w] = "GetIncidentEvents:964"
    /\ mutex = ""
    /\ mutex' = w
    /\ pc' = [pc EXCEPT ![w] = "GetStatus"]
    /\ UNCHANGED <<store, incidentLock, loc, assigned, view, data>>

\* GetStatus releases the mutex; GetIncidentEvents runs its loops and
\* returns.  The caller drops what it is returned.
eReturn(w) ==
    /\ pc[w] = "GetStatus"
    /\ mutex' = ""
    /\ pc' = [pc EXCEPT ![w] = "idle"]
    /\ loc' = [loc EXCEPT ![w] = EmptyMap]
    /\ UNCHANGED <<store, incidentLock, assigned, view, data>>

\* No worker has a call under way and no lock is held.
Quiet == mutex = "" /\ incidentLock = "" /\ \A w \in Workers : pc[w] = "idle"

\* ------------------------------------------------------------------------
\* GetIncidentEvents
\* ------------------------------------------------------------------------

ErrIncidentNotFound == "incident not found"

\* The loop over state.History: the run of events that carry id, from the
\* first one to the first event after it that does not.
RECURSIVE IncidentEvents(_, _, _, _, _)
IncidentEvents(hist, id, i, found, list) ==
    IF i > Len(hist) THEN list
    ELSE IF hist[i].IncidentId = id
    THEN IncidentEvents(hist, id, i + 1, TRUE, Append(list, hist[i]))
    ELSE IF found THEN list
    ELSE IncidentEvents(hist, id, i + 1, found, list)

\* a.Time.After(incident.Start) && (incident.End == nil ||
\* a.Time.Before(*incident.End) || a.Time.Equal(*incident.End))
InIncident(a, incident) ==
    /\ a.Time > incident.Start
    /\ (incident.End = NilPtr \/ a.Time < incident.End[1] \/ a.Time = incident.End[1])

\* The loop over state.Actions.
IncidentActions(acts, incident) == SelectSeq(acts, LAMBDA a : InIncident(a, incident))

\* Schedule.GetIncidentEvents(id) as a function of the scheduler's fields.
GetIncidentEventsResult(h, sts, incs, id) ==
    IF id \notin DOMAIN incs
    THEN [op |-> "GetIncidentEvents", id |-> id, err |-> ErrIncidentNotFound]
    ELSE IF incs[id].AlertKey \notin DOMAIN sts
    THEN [op |-> "GetIncidentEvents", id |-> id, err |-> NoErr, incident |-> incs[id],
          events |-> <<>>, actions |-> <<>>]
    ELSE LET state == sts[incs[id].AlertKey] IN
         [op |-> "GetIncidentEvents", id |-> id, err |-> NoErr, incident |-> incs[id],
          events  |-> IncidentEvents(History(h, state), id, 1, FALSE, <<>>),
          actions |-> IncidentActions(Actions(h, state), incs[id])]

\* A call of Schedule.GetIncidentEvents.
GetIncidentEvents(id) ==
    /\ reply = NoReply
    /\ reply' = GetIncidentEventsResult(heap, status, Incidents, id)
    /\ UNCHANGED <<store, conc, view, db, dbMaxIncidentId, mutex>>

\* The caller lets go of what it was returned.
ReplyDrop ==
    /\ reply # NoReply
    /\ reply' = NoReply
    /\ UNCHANGED <<store, conc, view, db, dbMaxIncidentId, mutex>>

\* ------------------------------------------------------------------------
\* Specifications
\* ------------------------------------------------------------------------

\* The scheduler under its mutex: the evaluations of one alert key, the
\* operator actions on it and on a key that has no state, and incident
\* reconstruction, one at a time.
Next ==
    \/ Tick(MaxTime)
    \/ \E st \in EventStatuses, notify \in BOOLEAN : RunHistory("a{h=x}", st, notify)
    \/ \E u \in Users, m \in Messages, t \in ActionTypes, ak \in AlertKeys : Action(u, m, t, ak)
    \/ createHistoricIncidents

Spec == Init /\ [][Next]_vars

\* The incident registry over two alert keys: one evaluated to Normal and
\* Warning and closed by the operator, the other evaluated to Warning;
\* incident creation and reconstruction.
NextInc ==
    \/ Tick(MaxTime)
    \/ \E st \in {StNormal, StWarning} : RunHistory("a{h=x}", st, FALSE)
    \/ RunHistory("b{h=y}", StWarning, FALSE)
    \/ \E u \in Users, m \in Messages : Action(u, m, ActionClose, "a{h=x}")
    \/ maxIncidentId < MaxLive /\ createIncident("a{h=x}", now)
    \/ createHistoricIncidents

SpecInc == Init /\ [][NextInc]_vars

\* A caller holding a snapshot of one alert key's state, beside the scheduler.
NextSnap ==
    \/ Tick(MaxTime + 1)
    \/ \E st \in {StNormal, StWarning} : RunHistory("a{h=x}", st, FALSE)
    \/ \E u \in Users, m \in Messages : Action(u, m, ActionClose, "a{h=x}")
    \/ createHistoricIncidents
    \/ GetOpenStates
    \/ \E st \in EventStatuses : SnapAppend("a{h=x}", st)
    \/ SnapDrop

SpecSnap == Init /\ [][NextSnap]_vars

\* One alert key evaluated at every reading of the clock, with a caller that
\* appends to the snapshot it got from GetOpenStates.
NextAppend ==
    \/ /\ "a{h=x}" \in DOMAIN status
       /\ Last(heap, status["a{h=x}"]).Time = now
       /\ Tick(MaxAppends)
    \/ \E st \in EventStatuses : RunHistory("a{h=x}", st, FALSE)
    \/ GetOpenStates
    \/ \E st \in EventStatuses : SnapAppend("a{h=x}", st)
    \/ SnapDrop

SpecAppend == Init /\ [][NextAppend]_vars

\* Two workers call Action, GetOpenStates, MarshalGroups, createIncident,
\* GetIncidents, GetIncident and GetIncidentEvents against each other, each
\* call statement by statement from lock to lock.  The alert is evaluated
\* with the scheduler mutex free, and the incidents are rebuilt with every
\* worker idle.
NextLock ==
    \/ Quiet /\ Tick(MaxLockTime)
    \/ \E st \in {StNormal, StWarning} : mutex = "" /\ RunHistory("a{h=x}", st, st # StNormal)
    \/ Quiet /\ createHistoricIncidents
    \/ \E w \in Creators, u \in Users, m \in Messages, t \in {ActionAcknowledge, ActionClose} :
           aLock(w, u, m, t, "a{h=x}")
    \/ \E w \in Creators : aIncident(w)
    \/ \E w \in Creators : aReturn(w)
    \/ \E w \in Creators, method \in {"GetOpenStates:334", "MarshalGroups:379"} : qLock(w, method)
    \/ \E w \in Creators : qReturn(w)
    \/ \E w \in Creators, method \in {"GetIncidents:933", "GetIncident:948"} : iLock(w, method)
    \/ \E w \in Creators : iReturn(w)
    \/ \E w \in Creators, id \in 1..MaxLive : eLock(w, id)
    \/ \E w \in Creators : eLookup(w)
    \/ \E w \in Creators : eGetStatus(w)
    \/ \E w \in Creators : eReturn(w)
    \/ \E w \in Creators : maxIncidentId < MaxLive /\ cLock(w, "a{h=x}")
    \/ \E w \in Creators : cLoad(w)
    \/ \E w \in Creators : cStore(w)
    \/ \E w \in Creators : cId(w)
    \/ \E w \in Creators : cPut(w)

SpecLock == Init /\ [][NextLock]_vars

\* The events and actions of the incidents of one alert key, which is
\* evaluated, acknowledged and closed, and whose incidents are rebuilt.
NextEvents ==
    \/ Tick(MaxTime)
    \/ \E st \in {StNormal, StWarning}, notify \in BOOLEAN : RunHistory("a{h=x}", st, notify)
    \/ \E u \in Users, m \in Messages, t \in {ActionAcknowledge, ActionClose} :
           Action(u, m, t, "a{h=x}")
    \/ createHistoricIncidents
    \/ \E id \in 1..MaxId : GetIncidentEvents(id)
    \/ ReplyDrop

SpecEvents == Init /\ [][NextEvents]_vars

\* The step "sort" of MarshalGroups on every list of at most MaxGroups
\* groups.
InitSort ==
    /\ status = EmptyMap
    /\ removed = EmptyMap
    /\ Notifications = {}
    /\ Incidents = EmptyMap
    /\ maxIncidentId = 0
    /\ heap = EmptyMap
    /\ snap = EmptyMap
    /\ now = 1
    /\ incidentLock = ""
    /\ pc = [w \in Workers |-> "idle"]
    /\ loc = [w \in Workers |-> EmptyMap]
    /\ assigned = <<>>
    /\ view \in {Unsorted(l) : l \in GroupLists}
    /\ db = EmptyMap
    /\ dbMaxIncidentId = 0
    /\ reply = NoReply
    /\ mutex = ""

NextSort == SortGroups

SpecSort == InitSort /\ [][NextSort]_vars

\* A call of GroupSets by worker c1, on every set of states, every
\* minGroup and every order; the worker keeps running.
InitCover ==
    /\ status = EmptyMap
    /\ removed = EmptyMap
    /\ Notifications = {}
    /\ Incidents = EmptyMap
    /\ maxIncidentId = 0
    /\ heap = EmptyMap
    /\ snap = EmptyMap
    /\ now = 1
    /\ incidentLock = ""
    /\ pc = [w \in Workers |-> IF w = "c1" THEN "GroupSets:257" ELSE "idle"]
    /\ \E call \in CoverCalls : loc = [w \in Workers |-> IF w = "c1" THEN call ELSE EmptyMap]
    /\ assigned = <<>>
    /\ view = NoView
    /\ db = EmptyMap
    /\ dbMaxIncidentId = 0
    /\ reply = NoReply
    /\ mutex = ""

NextCover ==
    \/ gsRound("c1")
    \/ gsBreak("c1")
    \/ gsReturn("c1")

SpecCover == InitCover /\ [][NextCover]_vars /\ WF_vars(NextCover)

\* The data-access incident store: incidents are created, read and updated
\* while the clock runs.
NextData ==
    \/ Tick(MaxTime)
    \/ \E ak \in DataKeys, start \in DataTimes : CreateIncident(ak, start)
    \/ \E id \in DataIds : GetIncident(id)
    \/ \E id \in DataIds, end \in DataTimes : UpdateIncident(id, end)

SpecData == Init /\ [][NextData]_vars

\* The grouping of the open states of three alert keys.  Two are evaluated
\* once, at the first reading of the clock, and one of them acknowledged by
\* the operator; the third goes on being evaluated when the clock runs.
NextGroup ==
    \/ GroupKeys \subseteq DOMAIN status /\ Tick(MaxGroupTime)
    \/ \E st \in {StNormal, StWarning}, notify \in BOOLEAN : RunHistory("a{dc=1,h=x}", st, notify)
    \/ "a{dc=2,h=y}" \notin DOMAIN status /\ RunHistory("a{dc=2,h=y}", StWarning, TRUE)
    \/ \E st \in {StWarning, StUnknown} :
           "b{dc=1,h=y}" \notin DOMAIN status /\ RunHistory("b{dc=1,h=y}", st, TRUE)
    \/ \E u \in Users, m \in Messages : Action(u, m, ActionAcknowledge, "b{dc=1,h=y}")
    \/ \E f \in Filters, a \in ConfAlerts, sil \in Silences, mg \in MinGroups :
           MarshalGroups(f, a, sil, mg)
    \/ ViewDrop

SpecGroup == Init /\ [][NextGroup]_vars

\* Workers creating incidents while another reconstructs them, statement by
\* statement, at one reading of the clock; the states are evaluated while no
\* reconstruction runs.
NextConc ==
    \/ \E ak \in AlertKeys : pc["h"] = "idle" /\ RunHistory(ak, StWarning, FALSE)
    \/ \E w \in Creators, ak \in AlertKeys : cLock(w, ak)
    \/ \E w \in Creators : cLoad(w)
    \/ \E w \in Creators : cStore(w)
    \/ \E w \in Creators : cId(w)
    \/ \E w \in Creators : cPut(w)
    \/ hBegin
    \/ hLoad
    \/ hStore
    \/ hId
    \/ hPut

SpecConc == Init /\ [][NextConc]_vars

\* ------------------------------------------------------------------------
\* Properties
\* ------------------------------------------------------------------------

\* What is seen of the States of map m: the flags and the elements of the
\* slices.
Observed(h, m) ==
    [k \in DOMAIN m |->
        [NeedAck |-> m[k].NeedAck, Open |-> m[k].Open, Forgotten |-> m[k].Forgotten,
         History |-> History(h, m[k]), Actions |-> Actions(h, m[k])]]

\* The last record of the state's Actions, the zero Action when there is none.
LastAction(h, s) ==
    IF s.Actions.len = 0 THEN ZeroAction ELSE h[s.Actions.arr][s.Actions.len]

\* C1: whenever Schedule.Action returns an error, nothing has been mutated:
\* the state store, the flags and Actions of every state, the tracked
\* notifications and every incident are what they were before the call.
C1_FailedActionMutatesNothing ==
    [][\A u \in Users, m \in Messages, t \in ActionTypes, ak \in AlertKeys :
          (Action(u, m, t, ak) /\ DoAction(u, m, t, ak).err # NoErr) =>
              /\ Observed(heap', status') = Observed(heap, status)
              /\ Observed(heap', removed') = Observed(heap, removed)
              /\ Notifications' = Notifications
              /\ Incidents' = Incidents]_vars

\* C2: after a Schedule.Action of type Acknowledge or Close that returns no
\* error the target state's NeedAck is false, and no Schedule.Action sets the
\* NeedAck of any state from false to true.
C2_AckCloseClearNeedAck ==
    \A u \in Users, m \in Messages, t \in ActionTypes, ak \in AlertKeys :
        LET r == DoAction(u, m, t, ak) IN
        /\ (r.err = NoErr /\ t \in {ActionAcknowledge, ActionClose})
               => ~r.status[ak].NeedAck
        /\ \A k \in DOMAIN status :
               /\ k \in DOMAIN r.status /\ r.status[k].NeedAck => status[k].NeedAck
               /\ k \in DOMAIN r.removed /\ r.removed[k].NeedAck => status[k].NeedAck

\* C2's case: a state that needed an acknowledgement has been acknowledged.
C2_Witness ==
    \E k \in DOMAIN status :
        /\ LastAction(heap, status[k]).Type = ActionAcknowledge
        /\ ~status[k].NeedAck

\* C3: Forget on a state of the store returns no error exactly when the
\* state's last abnormal status is Unknown, and "can only forget unknowns"
\* otherwise; a Forget without error leaves the key absent from the store
\* and the deleted state closed and forgotten.  In every state, no state of
\* the store is closed and forgotten, and every state that is was deleted by
\* a Forget, its last abnormal status being Unknown.
C3_ForgetOnlyUnknown ==
    /\ \A u \in Users, m \in Messages, ak \in DOMAIN status :
           LET r == DoAction(u, m, ActionForget, ak) IN
           /\ (r.err = NoErr) <=> (AbnormalStatus(heap, status[ak]) = StUnknown)
           /\ r.err # NoErr => r.err = ErrForget
           /\ r.err = NoErr =>
                  /\ ak \notin DOMAIN r.status
                  /\ ak \in DOMAIN r.removed
                  /\ ~r.removed[ak].Open /\ r.removed[ak].Forgotten
    /\ \A k \in DOMAIN status : status[k].Open \/ ~status[k].Forgotten
    /\ \A k \in DOMAIN removed :
           /\ ~removed[k].Open /\ removed[k].Forgotten
           /\ LastAction(heap, removed[k]).Type = ActionForget
           /\ AbnormalStatus(heap, removed[k]) = StUnknown

\* C3's case: a state whose last event is Normal after an Unknown has been
\* forgotten.
C3_Witness ==
    \E k \in DOMAIN removed :
        /\ removed[k].Forgotten
        /\ Status(heap, removed[k]) = StNormal

\* C4: Close on a state of the store returns "cannot close active alert"
\* exactly when the status of the state's last event is above Normal;
\* otherwise it returns no error and leaves the state closed, whether the
\* state was open or closed before.
C4_CloseFailsIffActive ==
    \A u \in Users, m \in Messages, ak \in DOMAIN status :
        LET r == DoAction(u, m, ActionClose, ak) IN
        /\ (r.err = ErrCloseActive) <=> (Last(heap, status[ak]).Status > StNormal)
        /\ r.err # ErrCloseActive => (r.err = NoErr /\ ~r.status[ak].Open)

\* C4's case: a closed state has been closed again.
C4_Witness ==
    \E k \in DOMAIN status :
        /\ status[k].Actions.len >= 2
        /\ heap[status[k].Actions.arr][status[k].Actions.len].Type = ActionClose
        /\ heap[status[k].Actions.arr][status[k].Actions.len - 1].Type = ActionClose
        /\ ~status[k].Open

\* The ids in assigned ascend strictly: no id is assigned twice.
IdsAscend == \A i, j \in DOMAIN assigned : i < j => assigned[i] < assigned[j]

\* Every id of Incidents is above 0 and at most maxIncidentId.
IdsInRange == \A id \in DOMAIN Incidents : 0 < id /\ id <= maxIncidentId

\* C5: under any interleaving of createIncident and createHistoricIncidents
\* the ids are assigned in strictly increasing order, none twice,
\* maxIncidentId never decreases, and every id of Incidents is above 0 and at
\* most maxIncidentId.
C5_IdsUniqueIncreasing ==
    [][maxIncidentId' >= maxIncidentId /\ IdsAscend' /\ IdsInRange']_vars

\* C6: with a snapshot in the caller's hands, no step of the scheduler
\* changes what the snapshot shows (flags, History, Actions), and no append
\* the caller makes to the snapshot changes what the store shows.
C6_SnapshotIsolated ==
    [][/\ snap' = snap => Observed(heap', snap) = Observed(heap, snap)
       /\ (\E ak \in AlertKeys, st \in EventStatuses : SnapAppend(ak, st))
              => Observed(heap', status) = Observed(heap, status)]_vars

\* C7: for a state s of the store and its copy c in the snapshot, an Append
\* to s changes no event of c's History (so not c.Last()), and an Append to
\* c changes no event of s's History (so not s.Last()).
C7_AppendLeavesCopy ==
    [][\A ak \in DOMAIN snap \cap DOMAIN status :
          /\ (\E st \in EventStatuses, n \in BOOLEAN : RunHistory(ak, st, n))
                 => History(heap', snap[ak]) = History(heap, snap[ak])
          /\ (\E st \in EventStatuses : SnapAppend(ak, st))
                 => History(heap', status[ak]) = History(heap, status[ak])]_vars

\* t is before the end e of an incident: an absent End is never reached.
BeforeEnd(t, e) == e = NilPtr \/ t < e[1]

\* The intervals [Start, End) of incidents a and b overlap.
Overlap(a, b) == BeforeEnd(a.Start, b.End) /\ BeforeEnd(b.Start, a.End)

\* The incidents of each alert key have pairwise disjoint intervals.
Disjoint(incs) ==
    \A i, j \in DOMAIN incs :
        (i # j /\ incs[i].AlertKey = incs[j].AlertKey) => ~Overlap(incs[i], incs[j])

\* The ids the events of state s carry.
StampsOf(h, s) == {History(h, s)[i].IncidentId : i \in 1..s.History.len} \ {0}

\* C8: after createHistoricIncidents the incidents of each alert key have
\* pairwise disjoint intervals [Start, End), an absent End being +infinity.
C8_IncidentsDisjoint ==
    \A order \in Orders(status) :
        Disjoint(Reconstruct(status, heap, Incidents, maxIncidentId, order).Incidents)

\* C8's case: reconstruction has made two incidents of one alert key, each
\* marked on events of the key's state.
C8_Witness ==
    \E k \in DOMAIN status : \E i, j \in StampsOf(heap, status[k]) :
        /\ i # j
        /\ {i, j} \subseteq DOMAIN Incidents
        /\ Incidents[i].AlertKey = k /\ Incidents[j].AlertKey = k

\* C9: every event of the store with a non-zero IncidentId names an incident
\* of Incidents whose AlertKey is the key of the event's state.
C9_StampsNameIncidents ==
    \A k \in DOMAIN status : \A id \in StampsOf(heap, status[k]) :
        id \in DOMAIN Incidents /\ Incidents[id].AlertKey = k

\* The (AlertKey, Start, End) triples of the incidents.
Triples(incs) == {<<incs[i].AlertKey, incs[i].Start, incs[i].End>> : i \in DOMAIN incs}

\* The events of the store that carry a non-zero IncidentId.
Stamped(h, sts) ==
    UNION {{<<k, i>> : i \in {j \in 1..sts[k].History.len :
                                  History(h, sts[k])[j].IncidentId # 0}} :
           k \in DOMAIN sts}

\* C10: a second createHistoricIncidents right after a first one yields as
\* many incidents, with the same (AlertKey, Start, End) triples, and leaves
\* the same events with a non-zero IncidentId.
C10_ReconstructIdempotent ==
    \A first, second \in Orders(status) :
        LET r1 == Reconstruct(status, heap, Incidents, maxIncidentId, first)
            r2 == Reconstruct(status, r1.heap, r1.Incidents, r1.maxIncidentId, second)
        IN  /\ Triples(r2.Incidents) = Triples(r1.Incidents)
            /\ Cardinality(DOMAIN r2.Incidents) = Cardinality(DOMAIN r1.Incidents)
            /\ Stamped(r2.heap, status) = Stamped(r1.heap, status)

\* C10's case: reconstruction has run again. The incidents are those of
\* the last run, each marked on an event and one of them ended, and below
\* them are ids that an earlier run has used: createIncident uses none
\* above MaxLive.
C10_Witness ==
    LET n == Cardinality(DOMAIN Incidents) IN
    /\ n >= 1
    /\ DOMAIN Incidents = (maxIncidentId - n + 1)..maxIncidentId
    /\ maxIncidentId - n > MaxLive
    /\ \A i \in DOMAIN Incidents : \E k \in DOMAIN status : i \in StampsOf(heap, status[k])
    /\ \E i \in DOMAIN Incidents : Incidents[i].End # NilPtr

\* (a.Start, a.AlertKey) is lexicographically less than (b.Start, b.AlertKey).
LexLess(a, b) ==
    a.Start < b.Start \/ (a.Start = b.Start /\ AkLess(a.AlertKey, b.AlertKey))

\* C11: for any two incidents i and j made by one run of
\* createHistoricIncidents, whatever order the states are visited in,
\* i.Id < j.Id exactly when (i.Start, i.AlertKey) is lexicographically less
\* than (j.Start, j.AlertKey).
C11_IdsFollowStartThenKey ==
    \A order \in Orders(status) :
        LET incs == Reconstruct(status, heap, Incidents, maxIncidentId, order).Incidents IN
        \A i, j \in DOMAIN incs : (i < j) <=> LexLess(incs[i], incs[j])

\* The places of the leaf children of StateGroups g: the list, the group's
\* index in it and the child's index in the group.
Leaves(g) ==
    {<<"NeedAck", i, j>> : i \in DOMAIN g.NeedAck, j \in 1..3} \cup
    {<<"Acknowledged", i, j>> : i \in DOMAIN g.Acknowledged, j \in 1..3}

\* The leaf child at place x of g, if there is one.
HasLeaf(g, x) == x[3] <= Len(g[x[1]][x[2]].Children)
Leaf(g, x) == g[x[1]][x[2]].Children[x[3]]

\* How many leaf children of g stand for alert key ak.
LeafCount(g, ak) ==
    Cardinality({x \in Leaves(g) : HasLeaf(g, x) /\ Leaf(g, x).AlertKey = ak})

AsSets(sets) == [n \in DOMAIN sets |-> Range(sets[n])]

\* C13: two runs of GroupSets on the same states with the same minGroup give
\* the same mapping from group name to member alert keys, whichever pairs are
\* tied for the highest count and whatever orders the maps are ranged over in.
C13_GroupSetsDeterministic ==
    LET open    == {k \in DOMAIN status : status[k].Open}
        buckets == GroupStates(heap, status, open, {})
    IN  \A t \in DOMAIN buckets, minGroup \in MinGroups :
            \A first, second \in Perms(buckets[t]) :
                \A r1 \in GroupSets(buckets[t], minGroup, first),
                   r2 \in GroupSets(buckets[t], minGroup, second) :
                    AsSets(r1) = AsSets(r2)

\* The ids of the incidents the store holds under the keys other than key.
OtherIds(key) == {Unmarshal(db[k]).Id : k \in DOMAIN db \ {key}}

\* C14: a successful CreateIncident(ak, start) of the data-access store
\* returns an incident with a fresh Id > 0, AlertKey = ak, Start = start and
\* no End, and GetIncident with that Id, called next, returns an equal
\* incident.
C14_CreateThenGet ==
    (reply.op = "CreateIncident" /\ reply.err = NoErr) =>
        LET i == reply.incident IN
        /\ i.Id > 0
        /\ i.Id \notin OtherIds(incidentKey(i.Id))
        /\ i.AlertKey = reply.ak
        /\ i.Start = reply.start
        /\ i.End = NilPtr
        /\ DataGet(db, i.Id) = [err |-> NoErr, incident |-> i]

\* The State the call Action(..., ak) acted on, in the outcome r of the call:
\* Forget takes it out of the store.
Target(r, ak) == IF ak \in DOMAIN r.status THEN r.status[ak] ELSE r.removed[ak]

\* C15: a Schedule.Action call that returns no error appends exactly one
\* Action record, with the given user, message and type, after the records
\* the state had; a call that returns an error leaves Actions as it was.
C15_OneRecordPerSuccess ==
    \A u \in Users, m \in Messages, t \in ActionTypes, ak \in DOMAIN status :
        LET r      == DoAction(u, m, t, ak)
            before == Actions(heap, status[ak])
            after  == Actions(r.heap, Target(r, ak))
        IN  IF r.err = NoErr
            THEN /\ Len(after) = Len(before) + 1
                 /\ SubSeq(after, 1, Len(before)) = before
                 /\ after[Len(after)].User = u
                 /\ after[Len(after)].Message = m
                 /\ after[Len(after)].Type = t
            ELSE after = before

\* A state with two records, the last from a successful Close, on which an
\* Acknowledge now fails.
C15_Witness ==
    \E ak \in DOMAIN status, u \in Users, m \in Messages :
        /\ Len(Actions(heap, status[ak])) = 2
        /\ LastAction(heap, status[ak]).Type = ActionClose
        /\ DoAction(u, m, ActionAcknowledge, ak).err # NoErr

\* Every two consecutive events of history q differ in Status.
Alternates(q) == \A i \in 1..(Len(q) - 1) : q[i].Status # q[i + 1].Status

\* The State objects there are: of the store, and of a snapshot.
AllStates == {status[k] : k \in DOMAIN status} \cup {snap[k] : k \in DOMAIN snap}

C17_MutexBeforeIncidentLock ==
    /\ \A w \in Workers : pc[w] \in MutexRequests => incidentLock # w
    /\ \A w \in Workers : pc[w] = "idle" => (mutex # w /\ incidentLock # w)
    /\ \A w \in Workers : pc[w] \in IncidentRequests => incidentLock # w
    /\ ~ \E w1, w2 \in Workers :
           /\ pc[w1] \in MutexRequests /\ mutex = w2
           /\ pc[w2] \in IncidentRequests /\ incidentLock = w1

\* A worker waits for the scheduler mutex inside GetIncidentEvents while the
\* other holds the mutex inside Action and waits for incidentLock, which a
\* third party does not hold.
C17_Witness ==
    \E w1, w2 \in Creators :
        /\ pc[w1] = "GetIncidentEvents:964"
        /\ pc[w2] = "Action:708"
        /\ mutex = w2
        /\ incidentLock = ""

\* C18: every step that writes the Incidents map or maxIncidentId is a step
\* of the worker that holds incidentLock, the steps of
\* createHistoricIncidents included.
C18_RegistryWritesUnderLock ==
    [][(Incidents' # Incidents \/ maxIncidentId' # maxIncidentId) =>
           \E w \in Workers : incidentLock = w /\ pc'[w] # pc[w]]_vars

\* The contiguous run of history hist that starts at the start event of
\* incident inc and goes on while the End of inc is absent or the event's
\* Time is before it.
RunOf(hist, inc) ==
    LET starts == {i \in DOMAIN hist : hist[i].Time = inc.Start}
    IN  {i \in DOMAIN hist :
            \E s \in starts : s <= i /\ \A j \in s..i : BeforeEnd(hist[j].Time, inc.End)}

\* The events of history hist that carry incident id.
MarkedWith(hist, id) == {i \in DOMAIN hist : hist[i].IncidentId = id}

\* C19: after createHistoricIncidents, the events that carry the id of an
\* incident are exactly the run of its state's History from its start event
\* on while End is absent or Time < End: an event at Time = End does not
\* carry it, a Normal event inside the run does.
C19_StampedRun ==
    \A order \in Orders(status) :
        LET r == Reconstruct(status, heap, Incidents, maxIncidentId, order) IN
        \A id \in DOMAIN r.Incidents, k \in DOMAIN status :
            LET inc  == r.Incidents[id]
                hist == History(r.heap, status[k])
            IN  IF k = inc.AlertKey
                THEN RunOf(hist, inc) # {} /\ MarkedWith(hist, id) = RunOf(hist, inc)
                ELSE MarkedWith(hist, id) = {}

\* The store after createHistoricIncidents: an ended incident whose id is
\* carried by its start event and by a Normal event after it, and not by the
\* event at the time of its End.
C19_Witness ==
    \E id \in DOMAIN Incidents :
        LET inc == Incidents[id] IN
        /\ inc.End # NilPtr
        /\ inc.AlertKey \in DOMAIN status
        /\ LET hist == History(heap, status[inc.AlertKey]) IN
           \E i, j, l \in DOMAIN hist :
               /\ hist[i].Time = inc.Start /\ hist[i].IncidentId = id
               /\ i < j /\ hist[j].Status = StNormal /\ hist[j].IncidentId = id
               /\ hist[l].Time = inc.End[1] /\ hist[l].IncidentId # id

\* The time t lies in the closed interval [Start, End] of the incident, with
\* no upper bound when End is absent.
Within(t, incident) ==
    incident.Start <= t /\ (incident.End = NilPtr \/ t <= incident.End[1])

\* C20: the action list of GetIncidentEvents(id) is exactly the actions of
\* the incident's state whose Time lies in the closed interval [Start, End]
\* of the incident: an action at Start is in it, an action at End is in it.
C20_ActionsInClosedInterval ==
    \A id \in DOMAIN Incidents :
        Incidents[id].AlertKey \in DOMAIN status =>
            GetIncidentEventsResult(heap, status, Incidents, id).actions
                = SelectSeq(Actions(heap, status[Incidents[id].AlertKey]),
                            LAMBDA a : Within(a.Time, Incidents[id]))

\* C21: a successful Close on a state whose last event carries the id of an
\* incident of Incidents sets the End of that incident to the time of the
\* Close record the call appends and changes no other incident; a Close on a
\* state whose last event carries no id changes no incident.
C21_CloseEndsIncident ==
    \A u \in Users, m \in Messages, ak \in DOMAIN status :
        LET r == DoAction(u, m, ActionClose, ak)
            i == Last(heap, status[ak]).IncidentId
        IN  r.err = NoErr =>
                IF i # 0 /\ i \in DOMAIN Incidents
                THEN /\ DOMAIN r.Incidents = DOMAIN Incidents
                     /\ r.Incidents[i].End = Ptr(LastAction(r.heap, Target(r, ak)).Time)
                     /\ r.Incidents[i] = [Incidents[i] EXCEPT !.End = r.Incidents[i].End]
                     /\ \A j \in DOMAIN Incidents \ {i} : r.Incidents[j] = Incidents[j]
                ELSE i = 0 => r.Incidents = Incidents

\* The store after a Close that ended one of two incidents: the last record
\* of the state is a Close, the incident of the last event ends at its time,
\* and another incident has another End.
C21_Witness ==
    \E ak \in DOMAIN status :
        LET i == Last(heap, status[ak]).IncidentId
            a == LastAction(heap, status[ak])
        IN  /\ a.Type = ActionClose
            /\ i \in DOMAIN Incidents
            /\ Incidents[i].End = Ptr(a.Time)
            /\ \E j \in DOMAIN Incidents \ {i} : Incidents[j].End # Ptr(a.Time)

\* What gsort compares of a group.
SortKey(g) == <<g.Active, g.Status, g.AlertKey, g.Subject>>

\* The groups of the lists of a StateGroups.
GroupsOf(v) == Range(v.NeedAck) \cup Range(v.Acknowledged)

\* C22: gsort is a strict total order on groups with distinct (Active,
\* Status, AlertKey, Subject): irreflexive, asymmetric, transitive, and of two
\* groups that differ in the tuple exactly one precedes the other; the
\* sorted list follows it.
C22_GsortStrictTotalOrder ==
    /\ \A a \in GroupsOf(view) : ~gsort(a, a)
    /\ \A a, b \in GroupsOf(view) : gsort(a, b) => ~gsort(b, a)
    /\ \A a, b, c \in GroupsOf(view) : (gsort(a, b) /\ gsort(b, c)) => gsort(a, c)
    /\ \A a, b \in GroupsOf(view) :
           SortKey(a) # SortKey(b) => (gsort(a, b) \/ gsort(b, a))
    /\ view.err = NoErr =>
           \A i, j \in DOMAIN view.NeedAck : i < j => ~gsort(view.NeedAck[j], view.NeedAck[i])

\* A sorted list of three groups, one pair of which differs in the AlertKey
\* alone and one pair in the Subject alone.
C22_Witness ==
    /\ view.err = NoErr
    /\ Len(view.NeedAck) = 3
    /\ \E a, b, c \in Range(view.NeedAck) :
           /\ SortKey(a) = [SortKey(b) EXCEPT ![3] = a.AlertKey] /\ a.AlertKey # b.AlertKey
           /\ SortKey(b) = [SortKey(c) EXCEPT ![4] = b.Subject] /\ b.Subject # c.Subject

\* The pairs and the alert names of the states S.
PairsOf(S) == UNION {Tags(ak) : ak \in S}
AlertsOf(S) == {AlertName(ak) : ak \in S}

\* The states of the groups of sets that are named by a pair.
TagCovered(S, sets) ==
    UNION {Range(sets[n]) : n \in DOMAIN sets \cap {PairName(p) : p \in PairsOf(S)}}

\* The mapping sets is a well-formed output of GroupSets on S with minGroup.
WellFormed(S, minGroup, sets) ==
    /\ \A n \in DOMAIN sets :
           LET members == Range(sets[n]) IN
           /\ members \subseteq S
           /\ Cardinality(members) = Len(sets[n])
           /\ IF \E p \in PairsOf(S) : n = PairName(p)
              THEN /\ Len(sets[n]) >= minGroup
                   /\ \A p \in PairsOf(S) : n = PairName(p) =>
                          \A ak \in members : p \in Tags(ak)
              ELSE IF n \in AlertsOf(S)
              THEN /\ Len(sets[n]) >= minGroup
                   /\ \A ak \in members : AlertName(ak) = n
                   /\ members \cap TagCovered(S, sets) = {}
              ELSE sets[n] = <<n>>
    /\ \A ak \in S : Cardinality({n \in DOMAIN sets : ak \in Range(sets[n])}) = 1
    /\ \A p \in PairsOf(S) :
           Cardinality({ak \in S \ TagCovered(S, sets) : p \in Tags(ak)}) < minGroup

\* C23: for minGroup >= 1 the output of GroupSets is made of groups named by
\* a pair, with minGroup members or more that all carry the pair, groups
\* named by an alert, with minGroup members or more of that alert that no
\* pair group holds, and one-element groups named by their alert key for the
\* states left; no pair with fewer than minGroup unassigned states forms a
\* group.
C23_GroupSetsShape ==
    LET open    == {k \in DOMAIN status : status[k].Open}
        buckets == GroupStates(heap, status, open, {})
    IN  \A t \in DOMAIN buckets, minGroup \in MinGroups \ {0} :
            \A sord \in Perms(buckets[t]) :
                \A sets \in GroupSets(buckets[t], minGroup, sord) :
                    WellFormed(buckets[t], minGroup, sets)

\* MarshalGroups has returned a group of the two states of alert a, named by
\* the alert, and a one-element group named by its alert key.
C23_Witness ==
    /\ view.err = NoErr
    /\ \E x \in {"NeedAck", "Acknowledged"} : \E i \in DOMAIN view[x] :
           /\ Len(view[x][i].Children) = 2
           /\ view[x][i].Subject = StatusString(view[x][i].Status) \o " - a"
    /\ \E x \in {"NeedAck", "Acknowledged"} : \E i \in DOMAIN view[x] :
           /\ Len(view[x][i].Children) = 1
           /\ view[x][i].Subject = StatusString(view[x][i].Status) \o " - b{dc=1,h=y}"

\* C24: once the End of an incident is set, no later action changes it, a
\* repeated Close on the same alert included.
C24_EndWriteOnce ==
    \A u \in Users, m \in Messages, t \in ActionTypes, ak \in DOMAIN status :
        LET r == DoAction(u, m, t, ak) IN
        \A id \in DOMAIN Incidents :
            Incidents[id].End # NilPtr => r.Incidents[id].End = Incidents[id].End

\* C24 as amended: once the End of an incident is set, an action never
\* clears it, and changes it only if it is a Close that returns no error on
\* the state whose last event carries the id of the incident; End is then the
\* timestamp of that Close.
C24_EndMovedOnlyByClose ==
    \A u \in Users, m \in Messages, t \in ActionTypes, ak \in DOMAIN status :
        LET r == DoAction(u, m, t, ak) IN
        \A id \in DOMAIN Incidents :
            Incidents[id].End # NilPtr =>
                /\ id \in DOMAIN r.Incidents
                /\ r.Incidents[id].End # NilPtr
                /\ r.Incidents[id].End # Incidents[id].End =>
                       /\ t = ActionClose
                       /\ r.err = NoErr
                       /\ Last(heap, status[ak]).IncidentId = id
                       /\ r.Incidents[id].End = Ptr(LastAction(r.heap, Target(r, ak)).Time)

\* The store after a second Close of the same alert: its two records are
\* Close records of different times, and the incident of its last event ends
\* at the time of the second.
C24_Witness ==
    \E ak \in DOMAIN status :
        LET acts == Actions(heap, status[ak])
            i    == Last(heap, status[ak]).IncidentId
        IN  /\ Len(acts) = 2
            /\ acts[1].Type = ActionClose /\ acts[2].Type = ActionClose
            /\ acts[1].Time < acts[2].Time
            /\ i \in DOMAIN Incidents
            /\ Incidents[i].End = Ptr(acts[2].Time)

\* C25: GroupSets terminates on every finite set of states and every integer
\* minGroup, zero and negative too; every round of the cover loop that does
\* not break marks a state not yet seen, so there are never more groups of
\* the cover than states seen.
C25_GroupSetsTerminates ==
    /\ <>(pc["c1"] = "GroupSets:return")
    /\ [](pc["c1"] = "GroupSets:257" =>
             Cardinality(DOMAIN loc["c1"].groups) <= Cardinality(loc["c1"].seen))

\* GroupSets has returned from a call with a negative minGroup on three
\* states, after more rounds than one.
C25_Witness ==
    /\ pc["c1"] = "GroupSets:return"
    /\ loc["c1"].minGroup < 0
    /\ Cardinality(loc["c1"].S) = 3
    /\ Cardinality(DOMAIN loc["c1"].groups) > 1

============================================================================
